---- MODULE Spec2Model ----
(***************************************************************************)
(* Model of the haystack preview components:                               *)
(*   - BatchCreator (components/batch/batch_creator.py)                    *)
(*   - the OpenAI call helpers (components/generators/openai/_helpers.py): *)
(*     openai_retry, query_chat_model, query_chat_model_stream,            *)
(*     raise_for_status, check_truncated_answers, check_filtered_answers   *)
(*   - enforce_token_limit (components/generators/_helpers.py)             *)
(***************************************************************************)
EXTENDS Integers, Sequences, FiniteSets, TLC

(* ---------------------------------------------------------------------- *)
(* Bounds of the model                                                    *)
(* ---------------------------------------------------------------------- *)
\* run calls made on one BatchCreator
MaxCalls == 5
\* largest max_batch_size
MaxK == 3
\* choices in one chat completion body
MaxChoices == 2
\* events other than the marker that the provider sends during one call
MaxEvents == 3
\* characters of a prompt given to enforce_token_limit
MaxPrompt == 3
\* largest max_tokens_limit
MaxLimit == 3

VARIABLES
    max_batch_size,   \* BatchCreator.max_batch_size
    batch,            \* BatchCreator.batch
    inputs,           \* history: the (item, release_batch) of every run call
    outputs,          \* history: the dict every run call returned
    fn,               \* the decorated function that was called
    url,              \* the url argument of the call
    headers,          \* the headers argument of the call
    payload,          \* the payload argument of the call
    callback,         \* the callback argument of the call
    pc,               \* position of the call: attempt, events, retry, done
    attempt_number,   \* tenacity's retry_state.attempt_number
    sent,             \* history: the request that requests.post sent in every attempt
    statuses,         \* history: status code of the response to every request
    response,         \* the response of the current attempt
    events,           \* the events read from client.events() in this attempt
    n_events,         \* number of events read from client.events() in this call
    tokens,           \* query_chat_model_stream's local list tokens
    cb_log,           \* history: every invocation of the callback
    closes,           \* number of client.close() calls of this attempt
    warnings,         \* number of logger.warning calls of this attempt
    outcome,          \* how the last attempt ended: none, returned, raised
    result,           \* the value the last attempt returned
    exc,              \* the exception the last attempt raised
    tokenizer,        \* enforce_token_limit's argument tokenizer
    prompt,           \* enforce_token_limit's argument prompt
    max_tokens_limit, \* enforce_token_limit's argument max_tokens_limit
    tok_pc,           \* position of the enforce_token_limit call: call, returned
    tok_result,       \* the prompt enforce_token_limit returned
    tok_warnings      \* number of logger.warning calls of enforce_token_limit

batchVars == <<max_batch_size, batch, inputs, outputs>>
callVars == <<fn, url, headers, payload, callback, pc, attempt_number, sent, statuses, response,
              events, n_events, tokens, cb_log, closes, warnings, outcome, result, exc>>
tokVars == <<tokenizer, prompt, max_tokens_limit, tok_pc, tok_result, tok_warnings>>
vars == <<batchVars, callVars, tokVars>>

Last(s) == s[Len(s)]

(* ---------------------------------------------------------------------- *)
(* BatchCreator                                                           *)
(* ---------------------------------------------------------------------- *)
\* Optional[int]: Python's None next to the integers
None == [some |-> FALSE, val |-> 0]
Some(n) == [some |-> TRUE, val |-> n]
Items == {"a", "b", "c"}
\* the two shapes of dict that BatchCreator.run returns
EmptyDict == [keys |-> {}, batch |-> <<>>]
BatchDict(b) == [keys |-> {"batch"}, batch |-> b]
MaxBatchSizes == {None} \cup {Some(n) : n \in 0..MaxK}

\* __init__: any max_batch_size, empty batch
BatchCreator_init ==
    /\ max_batch_size \in MaxBatchSizes
    /\ batch = <<>>
    /\ inputs = <<>>
    /\ outputs = <<>>

\* line 61: the condition under which run returns {} and keeps accumulating
KeepAccumulating_early(b, mbs, release_batch) ==
    ~release_batch /\ (mbs.some /\ Len(b) + 1 < mbs.val)
KeepAccumulating_late(b, mbs, release_batch) ==
    ~release_batch /\ (mbs.some /\ Len(b) <= mbs.val)
KeepAccumulating(b, mbs, release_batch) ==
    ~release_batch /\ (mbs.some /\ Len(b) < mbs.val)

\* lines 64-65: the dict returned on release
ReleaseOutput_stale(b) == BatchDict(SubSeq(b, 1, Len(b) - 1))
ReleaseOutput(b) == BatchDict(b)

\* line 65: the batch after a release
ResetBatch_keep(b) == b
ResetBatch(b) == <<>>

\* line 59: self.batch.append(item)
AppendItem_front(b, item) == <<item>> \o b
AppendItem(b, item) == Append(b, item)

\* run(item, release_batch)
run(item, release_batch) ==
    /\ Len(inputs) < MaxCalls
    /\ LET appended == AppendItem(batch, item)
       IN  IF KeepAccumulating(appended, max_batch_size, release_batch)
           THEN /\ batch' = appended
                /\ outputs' = Append(outputs, EmptyDict)
           ELSE /\ batch' = ResetBatch(appended)
                /\ outputs' = Append(outputs, ReleaseOutput(appended))
    /\ inputs' = Append(inputs, [item |-> item, release_batch |-> release_batch])
    /\ UNCHANGED max_batch_size
    /\ UNCHANGED <<callVars, tokVars>>

(* ---------------------------------------------------------------------- *)
(* OpenAI helpers: values                                                 *)
(* ---------------------------------------------------------------------- *)
\* HAYSTACK_REMOTE_API_MAX_RETRIES, default 5
OPENAI_MAX_RETRIES == 5

Fns == {"query_chat_model", "query_chat_model_stream"}
Statuses == {200, 400, 401, 429}

\* text is a sequence of characters
Contents == {<<"x">>, <<" ", "y", " ">>}
FinishReasons == {"stop", "length", "content_filter"}
Choices == [content : Contents, finish_reason : FinishReasons]
ChoiceLists == UNION {[1..n -> Choices] : n \in 1..MaxChoices}

\* response.text: its raw text, what json.loads makes of it, the choices in it
NoBody == [raw |-> "", json |-> "invalid", choices |-> <<>>]
ErrorBodies == {[raw |-> r, json |-> "invalid", choices |-> <<>>] : r \in {"err1", "err2"}}
NotJsonBody == [raw |-> "<html>", json |-> "invalid", choices |-> <<>>]
NoChoicesBody == [raw |-> "{}", json |-> "no_choices", choices |-> <<>>]
CompletionBodies == {[raw |-> "completion", json |-> "ok", choices |-> c] : c \in ChoiceLists}
EventStreamBody == [raw |-> "event-stream", json |-> "invalid", choices |-> <<>>]

\* requests.Response: the responses the provider can give to a call of f
NoResponse == [status_code |-> 0, text |-> NoBody]
Responses(f) ==
    {[status_code |-> s, text |-> t] : s \in Statuses \ {200}, t \in ErrorBodies}
    \cup {[status_code |-> 200, text |-> t] :
            t \in IF f = "query_chat_model"
                  THEN CompletionBodies \cup {NotJsonBody, NoChoicesBody}
                  ELSE {EventStreamBody}}

\* the payload dict: with or without the key "n"
Payloads == {[keys |-> {"messages", "n"}, n |-> 1], [keys |-> {"messages"}, n |-> 0]}

\* the url and the headers dict of a call
Urls == {"api.openai.com/v1/chat/completions", "localhost/v1/chat/completions"}
NoHeaders == [keys |-> {}, Authorization |-> ""]
HeaderDicts == {[keys |-> {"Authorization"}, Authorization |-> k] : k \in {"Bearer k1", "Bearer k2"}}

\* server-sent events: event.data is the marker, a JSON chunk, or not JSON
Marker == "[DONE]"
TokenValues == {<<"a">>, <<"b", "c">>}
MarkerEvent == [data |-> Marker, has_content |-> FALSE, content |-> <<>>]
DeltaEvent(c) == [data |-> "json", has_content |-> TRUE, content |-> c]
RoleEvent == [data |-> "json", has_content |-> FALSE, content |-> <<>>]
InvalidEvent == [data |-> "invalid", has_content |-> FALSE, content |-> <<>>]
StreamEvents ==
    {MarkerEvent, RoleEvent, InvalidEvent} \cup {DeltaEvent(c) : c \in TokenValues \cup {<<>>}}

\* exceptions: class, status code, message
NoExc == [cls |-> "none", status_code |-> 0, message |-> <<>>]
OpenAIError(message, status_code) ==
    [cls |-> "OpenAIError", status_code |-> status_code, message |-> message]
OpenAIRateLimitError(message) ==
    [cls |-> "OpenAIRateLimitError", status_code |-> 429, message |-> message]
OpenAIUnauthorizedError(message) ==
    [cls |-> "OpenAIUnauthorizedError", status_code |-> 401, message |-> message]
OpenAIErrorClasses == {"OpenAIError", "OpenAIRateLimitError", "OpenAIUnauthorizedError"}
JSONDecodeError == [cls |-> "JSONDecodeError", status_code |-> 0, message |-> <<"Expecting value">>]
KeyError(key) == [cls |-> "KeyError", status_code |-> 0, message |-> <<key>>]
TypeError(what) == [cls |-> "TypeError", status_code |-> 0, message |-> <<what>>]

\* how an attempt ends
Returned(value, w) ==
    [kind |-> "returned", result |-> value, exc |-> NoExc, warnings |-> w]
Raised(e, w) ==
    [kind |-> "raised", result |-> <<>>, exc |-> e, warnings |-> w]

(* ---------------------------------------------------------------------- *)
(* OpenAI helpers: functions                                              *)
(* ---------------------------------------------------------------------- *)
\* str.strip()
RECURSIVE LStrip(_)
LStrip(s) == IF Len(s) > 0 /\ Head(s) = " " THEN LStrip(Tail(s)) ELSE s
RECURSIVE RStrip(_)
RStrip(s) == IF Len(s) > 0 /\ Last(s) = " " THEN RStrip(SubSeq(s, 1, Len(s) - 1)) ELSE s
Strip(s) == RStrip(LStrip(s))

\* "".join(tokens)
RECURSIVE Join(_)
Join(toks) == IF toks = <<>> THEN <<>> ELSE Head(toks) \o Join(Tail(toks))

\* json.dumps(payload): the JSON text of the dict, its keys in a fixed order
json_dumps(p) == [json |-> "object", members |-> p.keys, n |-> IF "n" \in p.keys THEN p.n ELSE 0]
\* lines 74 and 99: what requests.post sends
Request_bare(u, h, p) == [url |-> u, headers |-> NoHeaders, data |-> json_dumps(p)]
Request(u, h, p) == [url |-> u, headers |-> h, data |-> json_dumps(p)]

\* raise_for_status: the error to raise, NoExc when there is none
raise_for_status_gt(resp) ==
    IF resp.status_code > 400
    THEN IF resp.status_code = 429
         THEN OpenAIRateLimitError(<<"API rate limit exceeded: ", resp.text>>)
         ELSE IF resp.status_code = 401
         THEN OpenAIUnauthorizedError(<<"API key is invalid: ", resp.text>>)
         ELSE OpenAIError(<<"OpenAI returned an error.", resp.status_code, resp.text>>,
                          resp.status_code)
    ELSE NoExc
raise_for_status(resp) ==
    IF resp.status_code >= 400
    THEN IF resp.status_code = 429
         THEN OpenAIRateLimitError(<<"API rate limit exceeded: ", resp.text>>)
         ELSE IF resp.status_code = 401
         THEN OpenAIUnauthorizedError(<<"API key is invalid: ", resp.text>>)
         ELSE OpenAIError(<<"OpenAI returned an error.", resp.status_code, resp.text>>,
                          resp.status_code)
    ELSE NoExc

\* number of choices with the given finish_reason
Completions(choices, reason) ==
    Cardinality({i \in DOMAIN choices : choices[i].finish_reason = reason})

\* check_truncated_answers / check_filtered_answers: the exception raised
\* (NoExc: none) and the number of warnings logged; payload["n"] is
\* evaluated only when a warning is due
CheckAnswers(choices, pl, reason) ==
    IF Completions(choices, reason) > 0
    THEN IF "n" \in pl.keys
         THEN [exc |-> NoExc, warnings |-> 1]
         ELSE [exc |-> KeyError("n"), warnings |-> 0]
    ELSE [exc |-> NoExc, warnings |-> 0]
check_truncated_answers(choices, pl) == CheckAnswers(choices, pl, "length")
check_filtered_answers(choices, pl) == CheckAnswers(choices, pl, "content_filter")

\* line 79: the list that query_chat_model returns
ChatReplies(choices) == [i \in DOMAIN choices |-> Strip(choices[i].content)]

\* query_chat_model, lines 74-79: one attempt, given the response to its request
query_chat_model(resp, pl) ==
    IF raise_for_status(resp) # NoExc THEN Raised(raise_for_status(resp), 0)
    ELSE IF resp.text.json = "invalid" THEN Raised(JSONDecodeError, 0)
    ELSE IF resp.text.json = "no_choices" THEN Raised(KeyError("choices"), 0)
    ELSE LET choices == resp.text.choices
             truncated == check_truncated_answers(choices, pl)
             filtered == check_filtered_answers(choices, pl)
         IN  IF truncated.exc # NoExc THEN Raised(truncated.exc, 0)
             ELSE IF filtered.exc # NoExc THEN Raised(filtered.exc, truncated.warnings)
             ELSE Returned(ChatReplies(choices), truncated.warnings + filtered.warnings)

\* the callbacks a caller passes: default_streaming_callback (lines 55-61),
\* the recording callback of the e2e test, a callback that transforms tokens
Callbacks == {"default_streaming_callback", "recording", "upper"}
UpperChar(c) == IF c = "a" THEN "A" ELSE IF c = "b" THEN "B" ELSE IF c = "c" THEN "C" ELSE c
\* callback(token, event_data=...): default_streaming_callback takes no
\* event_data keyword
CallbackRaises(cb) == cb = "default_streaming_callback"
CallbackReturn(cb, token) ==
    IF cb = "upper" THEN [i \in DOMAIN token |-> UpperChar(token[i])] ELSE token

\* line 103: tokens = [], whatever an earlier attempt accumulated
NewTokens_kept(toks) == toks
NewTokens(toks) == <<>>
\* line 106: event.data == marker
IsMarker_never(ev, marker) == FALSE
IsMarker(ev, marker) == ev.data = marker
\* line 108: json.loads(event.data) raises unless the data is a JSON text;
\* the marker "[DONE]" is none
JsonLoadsRaises(ev) == ev.data # "json"
\* lines 109-111: the token of an event, <<>> standing for None as well as ""
EventToken(ev) == IF ev.has_content THEN ev.content ELSE <<>>
\* line 111: if token
Truthy_any(token) == TRUE
Truthy(token) == token # <<>>
\* line 112: tokens after the callback returned
AppendToken_raw(toks, cb, token) == Append(toks, token)
AppendToken(toks, cb, token) == Append(toks, CallbackReturn(cb, token))
\* lines 113-114: the finally block closes the client however the loop is
\* left: by break, by the end of the events, by an exception
close_client_no_finally(c, exit) == IF exit = "exception" THEN c ELSE c + 1
close_client(c, exit) == c + 1
\* line 115
StreamReplies_list(toks) == toks
StreamReplies(toks) == <<Join(toks)>>

\* openai_retry, lines 48-49: `a and b` of two predicate objects is b
RetryIf_all(e) == TRUE
RetryIf(e) == e.cls # "OpenAIUnauthorizedError"
\* line 51: stop_after_attempt
Stop_before(n) == n + 1 >= OPENAI_MAX_RETRIES
Stop_after(n) == n > OPENAI_MAX_RETRIES
Stop(n) == n >= OPENAI_MAX_RETRIES
\* line 47: reraise=True raises the last attempt's exception itself
Reraise_wrapped(e) == [cls |-> "RetryError", status_code |-> 0, message |-> <<e.cls>>]
Reraise(e) == e

(* ---------------------------------------------------------------------- *)
(* OpenAI helpers: one decorated call                                     *)
(* ---------------------------------------------------------------------- *)
NoCall ==
    /\ fn = "none"
    /\ url = "none"
    /\ headers = NoHeaders
    /\ sent = <<>>
    /\ payload = [keys |-> {}, n |-> 0]
    /\ callback = "none"
    /\ pc = "idle"
    /\ attempt_number = 0
    /\ statuses = <<>>
    /\ response = NoResponse
    /\ events = <<>>
    /\ n_events = 0
    /\ tokens = <<>>
    /\ cb_log = <<>>
    /\ closes = 0
    /\ warnings = 0
    /\ outcome = "none"
    /\ result = <<>>
    /\ exc = NoExc

\* the calls made: query_chat_model with either payload, and
\* query_chat_model_stream, which only forwards its payload, with each callback
CallArgs ==
    {[fn |-> "query_chat_model", payload |-> p, callback |-> "none"] : p \in Payloads}
    \cup {[fn |-> "query_chat_model_stream", payload |-> p, callback |-> cb] :
            p \in {q \in Payloads : "n" \in q.keys}, cb \in Callbacks}

\* a caller calls query_chat_model(url, headers, payload) or
\* query_chat_model_stream(url, headers, payload, callback, marker)
CallInit ==
    /\ \E c \in CallArgs : fn = c.fn /\ payload = c.payload /\ callback = c.callback
    /\ url = "api.openai.com/v1/chat/completions"
    /\ headers = [keys |-> {"Authorization"}, Authorization |-> "Bearer k1"]
    /\ sent = <<>>
    /\ pc = "attempt"
    /\ attempt_number = 1
    /\ statuses = <<>>
    /\ response = NoResponse
    /\ events = <<>>
    /\ n_events = 0
    /\ tokens = <<>>
    /\ cb_log = <<>>
    /\ closes = 0
    /\ warnings = 0
    /\ outcome = "none"
    /\ result = <<>>
    /\ exc = NoExc

\* the attempt ends: its outcome goes to tenacity
EndAttempt(o) ==
    /\ outcome' = o.kind
    /\ result' = o.result
    /\ exc' = o.exc
    /\ warnings' = o.warnings
    /\ pc' = "retry"

\* one attempt of query_chat_model (lines 74-79), the provider answering resp
attempt_query_chat_model(resp) ==
    /\ pc = "attempt"
    /\ fn = "query_chat_model"
    /\ sent' = Append(sent, Request(url, headers, payload))
    /\ statuses' = Append(statuses, resp.status_code)
    /\ response' = resp
    /\ EndAttempt(query_chat_model(resp, payload))
    /\ UNCHANGED <<fn, url, headers, payload, callback, attempt_number, events, n_events, tokens, cb_log, closes>>
    /\ UNCHANGED <<batchVars, tokVars>>

\* query_chat_model_stream up to the loop (lines 99-103)
open_query_chat_model_stream(resp) ==
    /\ pc = "attempt"
    /\ fn = "query_chat_model_stream"
    /\ sent' = Append(sent, Request(url, headers, payload))
    /\ statuses' = Append(statuses, resp.status_code)
    /\ response' = resp
    /\ cb_log' = Append(cb_log, <<>>)
    /\ IF raise_for_status(resp) # NoExc
       THEN /\ EndAttempt(Raised(raise_for_status(resp), 0))
            /\ UNCHANGED <<events, tokens, closes>>
       ELSE /\ pc' = "events"
            /\ events' = <<>>
            /\ tokens' = NewTokens(tokens)
            /\ closes' = 0
            /\ UNCHANGED <<outcome, result, exc, warnings>>
    /\ UNCHANGED <<fn, url, headers, payload, callback, attempt_number, n_events>>
    /\ UNCHANGED <<batchVars, tokVars>>

\* one iteration of the loop over client.events() (lines 105-114)
read_event(ev) ==
    /\ pc = "events"
    /\ n_events < MaxEvents \/ ev.data = Marker
    /\ events' = Append(events, ev)
    /\ n_events' = n_events + 1
    /\ IF IsMarker(ev, Marker)
       THEN \* break, finally, return
            /\ closes' = close_client(closes, "break")
            /\ EndAttempt(Returned(StreamReplies(tokens), 0))
            /\ UNCHANGED <<tokens, cb_log>>
       ELSE IF JsonLoadsRaises(ev)
       THEN \* json.loads raises, finally
            /\ closes' = close_client(closes, "exception")
            /\ EndAttempt(Raised(JSONDecodeError, 0))
            /\ UNCHANGED <<tokens, cb_log>>
       ELSE IF Truthy(EventToken(ev))
       THEN /\ cb_log' = [cb_log EXCEPT ![Len(cb_log)] = Append(@, EventToken(ev))]
            /\ IF CallbackRaises(callback)
               THEN /\ closes' = close_client(closes, "exception")
                    /\ EndAttempt(Raised(TypeError("event_data"), 0))
                    /\ UNCHANGED tokens
               ELSE /\ tokens' = AppendToken(tokens, callback, EventToken(ev))
                    /\ UNCHANGED <<closes, pc, outcome, result, exc, warnings>>
       ELSE UNCHANGED <<tokens, cb_log, closes, pc, outcome, result, exc, warnings>>
    /\ UNCHANGED <<fn, url, headers, payload, callback, attempt_number, statuses, response>>
    /\ UNCHANGED sent
    /\ UNCHANGED <<batchVars, tokVars>>

\* client.events() is exhausted: the loop ends, finally, return (lines 113-115)
end_of_events ==
    /\ pc = "events"
    /\ closes' = close_client(closes, "end")
    /\ EndAttempt(Returned(StreamReplies(tokens), 0))
    /\ UNCHANGED <<fn, url, headers, payload, callback, attempt_number, statuses, response,
                   events, n_events, tokens, cb_log>>
    /\ UNCHANGED sent
    /\ UNCHANGED <<batchVars, tokVars>>

\* tenacity: the attempt returned, the call returns its value
retry_return ==
    /\ pc = "retry"
    /\ outcome = "returned"
    /\ pc' = "done"
    /\ UNCHANGED <<fn, url, headers, payload, callback, attempt_number, statuses, response,
                   events, n_events, tokens, cb_log, closes, warnings, outcome, result, exc>>
    /\ UNCHANGED sent
    /\ UNCHANGED <<batchVars, tokVars>>

\* tenacity: the attempt raised and is not retried, the call raises
retry_raise ==
    /\ pc = "retry"
    /\ outcome = "raised"
    /\ IF ~RetryIf(exc)
       THEN UNCHANGED exc
       ELSE Stop(attempt_number) /\ exc' = Reraise(exc)
    /\ pc' = "done"
    /\ UNCHANGED <<fn, url, headers, payload, callback, attempt_number, statuses, response,
                   events, n_events, tokens, cb_log, closes, warnings, outcome, result>>
    /\ UNCHANGED sent
    /\ UNCHANGED <<batchVars, tokVars>>

\* tenacity: the attempt raised and is retried after the backoff; the next
\* attempt binds its own tokens
retry_sleep ==
    /\ pc = "retry"
    /\ outcome = "raised"
    /\ RetryIf(exc)
    /\ ~Stop(attempt_number)
    /\ attempt_number' = attempt_number + 1
    /\ pc' = "attempt"
    /\ outcome' = "none"
    /\ exc' = NoExc
    /\ response' = NoResponse
    /\ events' = <<>>
    /\ closes' = 0
    /\ UNCHANGED <<fn, url, headers, payload, callback, statuses, n_events, tokens, cb_log, warnings, result>>
    /\ UNCHANGED sent
    /\ UNCHANGED <<batchVars, tokVars>>

(* ---------------------------------------------------------------------- *)
(* enforce_token_limit                                                    *)
(* ---------------------------------------------------------------------- *)
Chars == {"a", "b"}
Prompts == UNION {[1..n -> Chars] : n \in 0..MaxPrompt}

\* the tokenizers passed in: one token per character; one that also has a
\* merged token for "ab"; one that appends an end-of-sequence token when it
\* encodes and skips it when it decodes
Tokenizers == {"char", "pair", "eos"}
EOS == 0
CharId(c) == IF c = "a" THEN 1 ELSE 2
TokenText(id) ==
    IF id = 1 THEN <<"a">> ELSE IF id = 2 THEN <<"b">> ELSE IF id = 3 THEN <<"a", "b">> ELSE <<>>
Vocabulary(tk) == IF tk = "char" THEN {1, 2} ELSE IF tk = "pair" THEN {1, 2, 3} ELSE {EOS, 1, 2}

RECURSIVE Merge(_)
Merge(text) ==
    IF text = <<>> THEN <<>>
    ELSE IF Len(text) >= 2 /\ text[1] = "a" /\ text[2] = "b"
    THEN <<3>> \o Merge(SubSeq(text, 3, Len(text)))
    ELSE <<CharId(text[1])>> \o Merge(Tail(text))

\* tokenizer.encode(text)
encode(tk, text) ==
    IF tk = "pair" THEN Merge(text)
    ELSE IF tk = "eos" THEN [i \in DOMAIN text |-> CharId(text[i])] \o <<EOS>>
    ELSE [i \in DOMAIN text |-> CharId(text[i])]
\* tokenizer.decode(ids)
decode(tk, ids) == Join([i \in DOMAIN ids |-> TokenText(ids[i])])

\* the slice s[:n] of a list
SliceTo_short(s, n) ==
    IF n >= 0
    THEN SubSeq(s, 1, IF n - 1 < Len(s) THEN n - 1 ELSE Len(s))
    ELSE SubSeq(s, 1, IF Len(s) + n > 0 THEN Len(s) + n ELSE 0)
SliceTo(s, n) ==
    IF n >= 0
    THEN SubSeq(s, 1, IF n < Len(s) THEN n ELSE Len(s))
    ELSE SubSeq(s, 1, IF Len(s) + n > 0 THEN Len(s) + n ELSE 0)

\* enforce_token_limit, lines 17-28: the prompt returned and the warnings logged
enforce_token_limit(p, tk, limit) ==
    LET toks == encode(tk, p)
        tokens_count == Len(toks)
    IN  IF tokens_count > limit
        THEN LET tokenized_payload == encode(tk, p)
             IN  [prompt |-> decode(tk, SliceTo(tokenized_payload, limit)), warnings |-> 1]
        ELSE [prompt |-> p, warnings |-> 0]

NoTok ==
    /\ tokenizer = "none"
    /\ prompt = <<>>
    /\ max_tokens_limit = 0
    /\ tok_pc = "idle"
    /\ tok_result = <<>>
    /\ tok_warnings = 0

\* a generator is about to call enforce_token_limit(prompt, tokenizer, max_tokens_limit)
TokInit ==
    /\ tokenizer \in Tokenizers
    /\ prompt \in Prompts
    /\ max_tokens_limit \in 0..MaxLimit
    /\ tok_pc = "call"
    /\ tok_result = <<>>
    /\ tok_warnings = 0

\* the call of enforce_token_limit
call_enforce_token_limit ==
    /\ tok_pc = "call"
    /\ tok_result' = enforce_token_limit(prompt, tokenizer, max_tokens_limit).prompt
    /\ tok_warnings' = enforce_token_limit(prompt, tokenizer, max_tokens_limit).warnings
    /\ tok_pc' = "returned"
    /\ UNCHANGED <<tokenizer, prompt, max_tokens_limit>>
    /\ UNCHANGED <<batchVars, callVars>>

(* ---------------------------------------------------------------------- *)
(* Specifications                                                         *)
(* ---------------------------------------------------------------------- *)
\* a BatchCreator and the run calls made on it
Init == BatchCreator_init /\ NoCall /\ NoTok
Next == \E item \in Items, release_batch \in BOOLEAN : run(item, release_batch)
Spec == Init /\ [][Next]_vars

\* one call of query_chat_model or query_chat_model_stream
InitCall ==
    /\ CallInit
    /\ max_batch_size = None
    /\ batch = <<>>
    /\ inputs = <<>>
    /\ outputs = <<>>
    /\ NoTok
NextCall ==
    \/ \E resp \in Responses("query_chat_model") : attempt_query_chat_model(resp)
    \/ \E resp \in Responses("query_chat_model_stream") : open_query_chat_model_stream(resp)
    \/ \E ev \in StreamEvents : read_event(ev)
    \/ end_of_events
    \/ retry_return
    \/ retry_raise
    \/ retry_sleep
SpecCall == InitCall /\ [][NextCall]_vars

\* one call of enforce_token_limit
InitTok ==
    /\ TokInit
    /\ NoCall
    /\ max_batch_size = None
    /\ batch = <<>>
    /\ inputs = <<>>
    /\ outputs = <<>>
NextTok == call_enforce_token_limit
SpecTok == InitTok /\ [][NextTok]_vars

\* one call of query_chat_model or query_chat_model_stream, for every url
\* and headers dict
InitRequest ==
    /\ fn \in Fns
    /\ url \in Urls
    /\ headers \in HeaderDicts
    /\ payload \in (IF fn = "query_chat_model" THEN Payloads ELSE {p \in Payloads : "n" \in p.keys})
    /\ callback = (IF fn = "query_chat_model" THEN "none" ELSE "recording")
    /\ pc = "attempt"
    /\ attempt_number = 1
    /\ sent = <<>>
    /\ statuses = <<>>
    /\ response = NoResponse
    /\ events = <<>>
    /\ n_events = 0
    /\ tokens = <<>>
    /\ cb_log = <<>>
    /\ closes = 0
    /\ warnings = 0
    /\ outcome = "none"
    /\ result = <<>>
    /\ exc = NoExc
    /\ max_batch_size = None
    /\ batch = <<>>
    /\ inputs = <<>>
    /\ outputs = <<>>
    /\ NoTok
SpecRequest == InitRequest /\ [][NextCall]_vars

(* ---------------------------------------------------------------------- *)
(* Reading the histories of BatchCreator.run                              *)
(* ---------------------------------------------------------------------- *)
HasBatch(o) == "batch" \in o.keys
Released == {i \in 1..Len(outputs) : HasBatch(outputs[i])}
\* the last call before call i that returned a batch (0: none)
PrevRelease(i) ==
    LET before == {j \in Released : j < i}
    IN  IF before = {} THEN 0 ELSE CHOOSE j \in before : \A m \in before : m <= j
\* the items passed to calls i..j, in call order
ItemsOf(i, j) == [n \in 1..(j - i + 1) |-> inputs[i + n - 1].item]
AllUnforced == \A i \in 1..Len(inputs) : ~inputs[i].release_batch
Sized == max_batch_size.some /\ max_batch_size.val >= 1
IsRunStep == Len(inputs') = Len(inputs) + 1

\* C1: with max_batch_size 0 or None, a run call with release_batch false
\* never returns a batch; only release_batch true releases the buffer.
C1_OnlyExplicitFlushReleases ==
    (max_batch_size = None \/ max_batch_size = Some(0)) =>
        \A i \in 1..Len(outputs) :
            ~inputs[i].release_batch => outputs[i] = EmptyDict

\* C2: with max_batch_size = k >= 1, a run call with release_batch false
\* returns the empty result whenever the buffer, after the item is appended,
\* holds fewer than k items.
C2_NoReleaseBelowSize ==
    [][(/\ Sized
        /\ IsRunStep
        /\ ~Last(inputs').release_batch
        /\ Len(batch) + 1 < max_batch_size.val)
       => (Last(outputs') = EmptyDict /\ batch' = Append(batch, Last(inputs').item))]_vars
C2_Witness ==
    /\ max_batch_size = Some(3)
    /\ Len(inputs) = 2
    /\ AllUnforced
    /\ outputs = <<EmptyDict, EmptyDict>>
    /\ Len(batch) = 2

\* C3: fresh BatchCreator, max_batch_size = k >= 1, N run calls all with
\* release_batch false: exactly floor(N/k) calls return a batch, every
\* returned batch holds exactly k items, the buffer is empty right after
\* every release.
C3_AutomaticReleases ==
    (Sized /\ AllUnforced) =>
        /\ Cardinality(Released) = Len(inputs) \div max_batch_size.val
        /\ \A i \in Released : Len(outputs[i].batch) = max_batch_size.val
        /\ (Len(outputs) \in Released => batch = <<>>)
C3_Witness ==
    /\ max_batch_size = Some(2)
    /\ AllUnforced
    /\ Len(inputs) = 5
    /\ Released = {2, 4}
    /\ Len(batch) = 1

\* C4: a run call with release_batch true returns every item accepted since
\* the previous release, in acceptance order and ending with the current
\* item, even when fewer than max_batch_size, and leaves the buffer empty.
C4_ForcedRelease ==
    \A i \in 1..Len(outputs) :
        inputs[i].release_batch =>
            /\ outputs[i] = BatchDict(ItemsOf(PrevRelease(i) + 1, i))
            /\ Last(outputs[i].batch) = inputs[i].item
            /\ (i = Len(outputs) => batch = <<>>)
\* max_batch_size=2: a -> none, b -> [a,b], c forced -> [c]
C4_Witness ==
    /\ max_batch_size = Some(2)
    /\ Len(inputs) = 3
    /\ ItemsOf(1, 3) = <<"a", "b", "c">>
    /\ ~inputs[1].release_batch /\ ~inputs[2].release_batch /\ inputs[3].release_batch
    /\ outputs = <<EmptyDict, BatchDict(<<"a", "b">>), BatchDict(<<"c">>)>>
    /\ batch = <<>>

\* C5: with max_batch_size = k >= 1, between run calls (any mix of forced
\* and unforced) the buffer holds fewer than k items, and it is empty right
\* after any call that returned a batch.
C5_BufferBelowSize ==
    Sized =>
        /\ Len(batch) < max_batch_size.val
        /\ (Len(outputs) \in Released => batch = <<>>)
C5_Witness ==
    /\ max_batch_size = Some(2)
    /\ \E i \in Released : inputs[i].release_batch
    /\ \E i \in Released : ~inputs[i].release_batch
    /\ Len(batch) = 1


\* the batches returned so far by calls 1..n, concatenated in release order
RECURSIVE ReleasedItems(_)
ReleasedItems(n) ==
    IF n = 0 THEN <<>>
    ELSE ReleasedItems(n - 1) \o (IF HasBatch(outputs[n]) THEN outputs[n].batch ELSE <<>>)

\* C17: after any sequence of run calls, for any max_batch_size, the
\* concatenation of all returned batches in release order followed by the
\* current buffer is the sequence of items passed to run in call order.
C17_NoItemLostDuplicatedReordered ==
    ReleasedItems(Len(outputs)) \o batch = ItemsOf(1, Len(inputs))
\* max_batch_size=3: a forced -> [a]; b, c, a -> [b,c,a]; b buffered
C17_Witness ==
    /\ max_batch_size = Some(3)
    /\ ItemsOf(1, Len(inputs)) = <<"a", "b", "c", "a", "b">>
    /\ Released = {1, 4}
    /\ inputs[1].release_batch
    /\ ~inputs[4].release_batch
    /\ ReleasedItems(Len(outputs)) = <<"a", "b", "c", "a">>
    /\ batch = <<"b">>

(* ---------------------------------------------------------------------- *)
(* Reading the history of a decorated call                                *)
(* ---------------------------------------------------------------------- *)
\* the responses before the current one
Earlier == 1..(Len(statuses) - 1)
Leading429 == \A i \in Earlier : statuses[i] = 429
AttemptEnded == pc \in {"retry", "done"}
\* a 2xx chat completion whose checks have nothing to look up in the payload
GoodCompletion ==
    /\ fn = "query_chat_model"
    /\ response.text.json = "ok"
    /\ \/ "n" \in payload.keys
       \/ \A i \in DOMAIN response.text.choices :
            response.text.choices[i].finish_reason = "stop"
\* the events of this attempt before the last one
Before == 1..(Len(events) - 1)
HasToken(ev) == ev.data = "json" /\ ev.has_content /\ ev.content # <<>>
\* a 2xx stream of token events closed by the marker, read with a callback
\* that returns
GoodTokenStream ==
    /\ fn = "query_chat_model_stream"
    /\ ~CallbackRaises(callback)
    /\ Len(events) > 0
    /\ Last(events) = MarkerEvent
    /\ \A i \in Before : HasToken(events[i])
\* a 2xx stream of well-formed events closed by the marker
GoodStream ==
    /\ fn = "query_chat_model_stream"
    /\ Len(events) > 0
    /\ Last(events) = MarkerEvent
    /\ \A i \in Before : events[i].data = "json"
    /\ \A i \in Before : HasToken(events[i]) => ~CallbackRaises(callback)
\* the contents of the token events among the first n events, in arrival order
RECURSIVE Arrived(_)
Arrived(n) ==
    IF n = 0 THEN <<>>
    ELSE IF HasToken(events[n]) THEN Append(Arrived(n - 1), events[n].content)
    ELSE Arrived(n - 1)
Returns(toks) == [i \in DOMAIN toks |-> CallbackReturn(callback, toks[i])]

\* C6: when the first r < OPENAI_MAX_RETRIES responses are 429 and the next
\* is a successful 200, the call issues exactly r+1 requests (it goes on to
\* a next request after each 429, and to none after the 200) and returns the
\* result of the 200 response.
C6_RetryOn429ThenSuccess ==
    [][/\ (/\ pc = "retry"
           /\ Leading429
           /\ response.status_code = 429
           /\ Len(statuses) < OPENAI_MAX_RETRIES)
          => (/\ pc' = "attempt"
              /\ attempt_number' = attempt_number + 1
              /\ statuses' = statuses)
       /\ (pc = "attempt" /\ pc' # "attempt")
          => (Len(statuses') = Len(statuses) + 1 /\ Len(statuses') = attempt_number)
       /\ (/\ pc = "retry"
           /\ Leading429
           /\ response.status_code = 200
           /\ GoodCompletion \/ GoodStream)
          => (/\ pc' = "done"
              /\ outcome' = "returned"
              /\ statuses' = statuses
              /\ Len(statuses) = attempt_number
              /\ result' = IF fn = "query_chat_model"
                           THEN ChatReplies(response.text.choices)
                           ELSE <<Join(Returns(Arrived(Len(events))))>>)]_vars
C6_Witness ==
    /\ pc = "done"
    /\ fn = "query_chat_model"
    /\ statuses = <<429, 429, 429, 429, 200>>
    /\ outcome = "returned"
    /\ result = <<<<"y">>, <<"x">>>>

\* C7: a 401 response ends the call: no further attempt is made and the
\* Unauthorized error, with the response's body text, reaches the caller; a
\* call whose first response is 401 makes exactly 1 attempt.
C7_UnauthorizedIsFatal ==
    /\ \A i \in 1..Len(statuses) : statuses[i] = 401 => i = Len(statuses)
    /\ (Len(statuses) > 0 /\ statuses[1] = 401) => attempt_number = 1
    /\ response.status_code = 401 =>
        /\ AttemptEnded
        /\ outcome = "raised"
        /\ exc.cls = "OpenAIUnauthorizedError"
        /\ Last(exc.message) = response.text
C7_Witness ==
    /\ pc = "done"
    /\ statuses = <<429, 400, 401>>
    /\ outcome = "raised"
    /\ exc.cls = "OpenAIUnauthorizedError"

\* C8: when every attempt fails with a retryable provider error (429 or
\* another status >= 400 except 401), the call makes exactly
\* OPENAI_MAX_RETRIES attempts and then raises the classified error of the
\* last attempt itself, not a wrapper and not an earlier attempt's error.
C8_ExhaustedRetriesReraiseLast ==
    (pc = "done" /\ \A i \in 1..Len(statuses) : statuses[i] >= 400 /\ statuses[i] # 401) =>
        /\ Len(statuses) = OPENAI_MAX_RETRIES
        /\ attempt_number = OPENAI_MAX_RETRIES
        /\ outcome = "raised"
        /\ exc.cls = IF response.status_code = 429 THEN "OpenAIRateLimitError" ELSE "OpenAIError"
        /\ Last(exc.message) = response.text
        /\ response.status_code = Last(statuses)
C8_Witness ==
    /\ pc = "done"
    /\ statuses = <<429, 400, 429, 429, 400>>
    /\ response.text.raw = "err2"
    /\ exc = OpenAIError(<<"OpenAI returned an error.", 400, response.text>>, 400)

C10_StreamOfTokens ==
    (AttemptEnded /\ response.status_code = 200 /\ GoodTokenStream) =>
        /\ Last(cb_log) = [i \in Before |-> events[i].content]
        /\ Len(Last(cb_log)) = Len(events) - 1
        /\ (Len(statuses) = 1 => cb_log = <<[i \in Before |-> events[i].content]>>)
        /\ outcome = "returned"
        /\ result = <<Join([i \in Before |-> CallbackReturn(callback, events[i].content)])>>
C10_Witness ==
    /\ pc = "done"
    /\ callback = "upper"
    /\ events = <<DeltaEvent(<<"b", "c">>), DeltaEvent(<<"a">>), MarkerEvent>>
    /\ cb_log = <<<<<<"b", "c">>, <<"a">>>>>>
    /\ result = <<<<"B", "C", "A">>>>

\* number of callback invocations of the whole call
RECURSIVE Invocations(_)
Invocations(n) == IF n = 0 THEN 0 ELSE Invocations(n - 1) + Len(cb_log[n])

\* C11: when the callback raises during query_chat_model_stream the
\* exception reaches the caller at once: no further request is issued, the
\* callback is not invoked again, the stream of that attempt is closed.
C11_CallbackExceptionPropagates ==
    (fn = "query_chat_model_stream" /\ CallbackRaises(callback)) =>
        /\ Invocations(Len(cb_log)) <= 1
        /\ \A i \in 1..Len(cb_log) :
            cb_log[i] # <<>> =>
                /\ i = Len(statuses)
                /\ AttemptEnded
                /\ outcome = "raised"
                /\ exc.cls = "TypeError"
                /\ closes = 1

\* C12: in an attempt of query_chat_model_stream whose request passes the
\* status check the stream connection is closed exactly once, whether
\* reading ends at the marker, at the end of the events or by an exception
\* (malformed event, callback failure); it is open only while events are read.
C12_ClosedExactlyOnce ==
    (fn = "query_chat_model_stream" /\ response # NoResponse /\ response.status_code < 400) =>
        /\ pc = "events" => closes = 0
        /\ AttemptEnded => closes = 1
C12_Witness ==
    /\ pc = "retry"
    /\ fn = "query_chat_model_stream"
    /\ statuses = <<429, 200>>
    /\ events = <<DeltaEvent(<<"a">>), InvalidEvent>>
    /\ exc = JSONDecodeError
    /\ closes = 1

\* C13: for a callback that records each token it receives and returns it
\* unchanged, after a successful streaming call the concatenation of all the
\* tokens the callback received during the call equals the returned reply.
C13_RecordedTokensAreTheReply ==
    (/\ fn = "query_chat_model_stream"
     /\ callback = "recording"
     /\ pc = "done"
     /\ outcome = "returned")
    => Join(Join(cb_log)) = result[1]

\* some choice of the response has one of the two finish reasons that are logged
SomeCutShort(resp) ==
    /\ resp # NoResponse
    /\ resp.status_code < 400
    /\ resp.text.json = "ok"
    /\ \E i \in DOMAIN resp.text.choices :
        resp.text.choices[i].finish_reason \in {"length", "content_filter"}

\* C14: an attempt of query_chat_model that received a 2xx response in which
\* some choice has finish reason "length" or "content_filter" does not fail,
\* whatever the payload: it logs a warning and returns the text of every choice.
C14_CutShortIsLoggedNotRaised ==
    (fn = "query_chat_model" /\ AttemptEnded /\ SomeCutShort(response)) =>
        /\ outcome = "returned"
        /\ warnings >= 1
        /\ result = ChatReplies(response.text.choices)

\* C15: a streaming call returns a result only when the termination marker
\* was seen: a stream whose events end before the marker is never returned
\* as a successful result holding the tokens received so far.
C15_NoPartialResult ==
    (fn = "query_chat_model_stream" /\ pc = "done" /\ outcome = "returned") =>
        /\ events # <<>>
        /\ events[Len(events)] = MarkerEvent

\* C18: query_chat_model retries an attempt only when it failed with a
\* classified provider error other than Unauthorized: every attempt that was
\* followed by another one had received an error status, and a call that
\* raises any other exception has made exactly one attempt.
C18_OnlyProviderErrorsRetried ==
    fn = "query_chat_model" =>
        /\ \A i \in Earlier : statuses[i] >= 400 /\ statuses[i] # 401
        /\ (pc = "done" /\ outcome = "raised" /\ exc.cls \notin OpenAIErrorClasses)
            => Len(statuses) = 1

\* a bound on the steps a call still has to take: three for every attempt
\* that tenacity may still start, one for every event that the stream (finite:
\* at most MaxEvents events and the marker) may still deliver, and the steps
\* left in the current attempt
PcRank == IF pc = "attempt" THEN 3 ELSE IF pc = "events" THEN 2 ELSE IF pc = "retry" THEN 1 ELSE 0
Rank == 3 * (OPENAI_MAX_RETRIES - attempt_number) + (MaxEvents + 1 - n_events) + PcRank

\* the steps of a call that do not depend on what the stream delivers
DueStep ==
    \/ end_of_events
    \/ retry_return
    \/ retry_raise
    \/ retry_sleep
    \/ \E resp \in Responses("query_chat_model") : attempt_query_chat_model(resp)
    \/ \E resp \in Responses("query_chat_model_stream") : open_query_chat_model_stream(resp)

\* C19: every call of query_chat_model or query_chat_model_stream issues at
\* most OPENAI_MAX_RETRIES requests and, every request returning and every
\* stream being finite, terminates: a call that has not returned or raised
\* always has a next step, and every step brings it closer to its end.
C19_TerminatesWithinMaxRetries ==
    /\ [](/\ Len(statuses) <= OPENAI_MAX_RETRIES
          /\ Rank >= 0
          /\ pc # "done" => ENABLED DueStep
          /\ pc = "done" => outcome \in {"returned", "raised"})
    /\ [][Rank' < Rank]_vars
\* the last allowed request of a streaming call: four attempts failed, the
\* fifth one streams a token and the marker
C19_Witness ==
    /\ pc = "done"
    /\ fn = "query_chat_model_stream"
    /\ Len(statuses) = OPENAI_MAX_RETRIES
    /\ statuses[OPENAI_MAX_RETRIES] = 200
    /\ outcome = "returned"
    /\ result = <<<<"a">>>>

\* the positions of the marker among the events read in the current attempt
MarkerAt == {i \in 1..Len(events) : events[i] = MarkerEvent}

\* C20: in query_chat_model_stream reading stops at the termination marker:
\* the marker is the last event read in its attempt, the attempt has ended
\* and returned, the callback was invoked for the tokens that arrived before
\* the marker and for nothing else, and the returned text is made of the
\* values it returned for them.
C20_NothingAfterMarker ==
    \A m \in MarkerAt :
        /\ m = Len(events)
        /\ AttemptEnded
        /\ outcome = "returned"
        /\ Last(cb_log) = Arrived(m - 1)
        /\ tokens = Returns(Arrived(m - 1))
        /\ result = <<Join(Returns(Arrived(m - 1)))>>
\* a role event, a token, the marker
C20_Witness ==
    /\ pc = "done"
    /\ callback = "recording"
    /\ events = <<RoleEvent, DeltaEvent(<<"a">>), MarkerEvent>>
    /\ cb_log = <<<<<<"a">>>>>>
    /\ result = <<<<"a">>>>

\* the current attempt of a streaming call has passed the status check
Streaming ==
    /\ fn = "query_chat_model_stream"
    /\ pc # "attempt"
    /\ response.status_code < 400

\* C21: in query_chat_model_stream the callback is invoked for the events
\* with present, non-empty content and for no other: an event whose delta
\* has no content, or empty content, invokes no callback and adds nothing to
\* the accumulated text.
C21_OnlyNonEmptyContentIsAToken ==
    Streaming =>
        /\ Last(cb_log) = Arrived(Len(events))
        /\ ~CallbackRaises(callback) => tokens = Returns(Arrived(Len(events)))
        /\ \A i \in 1..Len(Last(cb_log)) : Last(cb_log)[i] # <<>>
\* a delta without content, a delta with empty content, a token
C21_Witness ==
    /\ pc = "events"
    /\ callback = "upper"
    /\ events = <<RoleEvent, DeltaEvent(<<>>), DeltaEvent(<<"b", "c">>)>>
    /\ cb_log = <<<<<<"b", "c">>>>>>
    /\ tokens = <<<<"B", "C">>>>

\* C22: every successful call of query_chat_model_stream returns a list of
\* exactly one string, the concatenation of the accumulated tokens, whatever
\* the number of token events; with no token event it is the empty string.
C22_OneReply ==
    (fn = "query_chat_model_stream" /\ AttemptEnded /\ outcome = "returned") =>
        /\ Len(result) = 1
        /\ result[1] = Join(tokens)
        /\ Len(tokens) = Len(Arrived(Len(events)))
        /\ (Arrived(Len(events)) = <<>> => result = << <<>> >>)
\* no token event at all: a delta without content, then the marker
C22_Witness ==
    /\ pc = "done"
    /\ fn = "query_chat_model_stream"
    /\ outcome = "returned"
    /\ events = <<RoleEvent, MarkerEvent>>
    /\ Invocations(Len(cb_log)) = 0
    /\ result = << <<>> >>

\* C23: the token accumulator starts empty on every attempt of
\* query_chat_model_stream: when an attempt fails after tokens were received
\* and a later attempt succeeds, the returned text is built from the tokens
\* of the successful attempt only.
C23_FailedAttemptsLeaveNoToken ==
    Streaming =>
        /\ events = <<>> => tokens = <<>>
        /\ Len(tokens) <= Len(Last(cb_log))
        /\ (AttemptEnded /\ outcome = "returned") =>
            result = <<Join(Returns(Last(cb_log)))>>
\* the first attempt received "a" and failed on a malformed event, the
\* second one received "bc" and the marker
C23_Witness ==
    /\ pc = "done"
    /\ callback = "recording"
    /\ statuses = <<200, 200>>
    /\ cb_log = << << <<"a">> >>, << <<"b", "c">> >> >>
    /\ events = <<DeltaEvent(<<"b", "c">>), MarkerEvent>>
    /\ outcome = "returned"
    /\ result = << <<"b", "c">> >>

\* C24: the request of a call is immutable: every attempt, retries included,
\* sends the url, the headers and the payload that the caller passed, and no
\* step of the call changes the caller's url, headers or payload.
C24_RequestImmutable ==
    /\ [](/\ Len(sent) = Len(statuses)
          /\ \A i \in 1..Len(sent) :
              sent[i] = [url |-> url, headers |-> headers, data |-> json_dumps(payload)])
    /\ [][url' = url /\ headers' = headers /\ payload' = payload]_vars
\* five attempts of a call with the second url, the second key and the
\* payload without "n", all of them sending the same request
C24_Witness ==
    /\ pc = "done"
    /\ fn = "query_chat_model"
    /\ url = "localhost/v1/chat/completions"
    /\ headers.Authorization = "Bearer k2"
    /\ "n" \notin payload.keys
    /\ Len(sent) = OPENAI_MAX_RETRIES
    /\ \A i \in 1..Len(sent) : sent[i] = sent[1]
    /\ sent[1].headers = headers
    /\ sent[1].data.members = {"messages"}

(* ---------------------------------------------------------------------- *)
(* Claims about enforce_token_limit                                       *)
(* ---------------------------------------------------------------------- *)
\* token sequences over the vocabulary of a tokenizer
TokenSeqs(tk) == UNION {[1..n -> Vocabulary(tk)] : n \in 0..MaxPrompt}
\* encode and decode are inverse on token sequences
InverseOnTokens(tk) == \A ids \in TokenSeqs(tk) : encode(tk, decode(tk, ids)) = ids
\* the prompt has more tokens than the limit
OverLimit == Len(encode(tokenizer, prompt)) > max_tokens_limit

\* C16: for a tokenizer whose encode and decode are inverse on token
\* sequences, enforce_token_limit given a prompt with more tokens than
\* max_tokens_limit returns the decoding of the first max_tokens_limit tokens
\* of the prompt, and the returned prompt has exactly max_tokens_limit tokens.
C16_TruncatedToExactlyLimit ==
    (tok_pc = "returned" /\ InverseOnTokens(tokenizer) /\ OverLimit) =>
        /\ \E ids \in TokenSeqs(tokenizer) :
            /\ Len(ids) = max_tokens_limit
            /\ \A i \in 1..max_tokens_limit : ids[i] = encode(tokenizer, prompt)[i]
            /\ tok_result = decode(tokenizer, ids)
        /\ Len(encode(tokenizer, tok_result)) = max_tokens_limit
C16_Witness ==
    /\ tok_pc = "returned"
    /\ tokenizer = "char"
    /\ prompt = <<"a", "b", "a">>
    /\ max_tokens_limit = 2
    /\ tok_result = <<"a", "b">>
    /\ tok_warnings = 1
====
